---- MODULE Spec2Model ----
(***************************************************************************)
(* Model of add_view_subtasks.py: a one-shot script that loads             *)
(* .taskmaster/tasks/tasks.json, locates subtask 13 of task 20, replaces   *)
(* its 'subtasks' field by nine literal records, stores the record at      *)
(* index 12 of the parent's subtask list and rewrites the file.            *)
(*                                                                         *)
(* Python lists are 0-based, TLA+ sequences 1-based: Python index i is     *)
(* position i + 1 here.  A Python dict is a TLA+ record (a function on     *)
(* its keys), so an absent key is an element missing from DOMAIN.          *)
(***************************************************************************)
EXTENDS Integers, Sequences, FiniteSets, TLC

VARIABLES
    file,           \* content of .taskmaster/tasks/tasks.json on disk
    fileAtStart,    \* content of the file when the current run started
    data,           \* the loaded document (Unbound before json.load)
    task_20_13,     \* None, or the position of the located subtask in its parent
    task_20_index,  \* None, or the position of the owning task in data.tasks
    pc,             \* the statement the run is at
    out,            \* lines printed so far by the current run
    status,         \* exit status of the current run (Running until it ends)
    written,        \* number of top-level task chunks json.dump has emitted
    reads,          \* times the current run opened the file for reading
    writes,         \* times the current run opened the file for writing
    run,            \* ordinal of the current run of the script
    prev,           \* how the previous run ended ("none" in the first run)
    killedAt        \* the statement at which the current run was killed, if it was

vars == <<file, fileAtStart, data, task_20_13, task_20_index, pc, out,
          status, written, reads, writes, run, prev, killedAt>>

----------------------------------------------------------------------------
(* Bounds of the model *)

MaxTasks == 2       \* longest top-level task list of a starting document
MaxSubLen == 14     \* longest subtask list of a starting task 20
MaxRuns == 2        \* runs of the script in sequence

(* Program constants *)

TargetTaskId == 20
TargetSubtaskId == 13
HardIndex == 12         \* the 0-based index written at line 129

None == 0
Running == -1
Unbound == [unbound |-> TRUE]

----------------------------------------------------------------------------
(* The nine literal records of lines 32-123 *)

new_subtasks == <<
  [id |-> 1,
   title |-> "View Switching Infrastructure",
   description |-> "Create ViewSwitcher component in DatabaseToolbar and add view state management",
   status |-> "pending",
   priority |-> "high",
   dependencies |-> <<>>,
   details |-> "Create ViewSwitcher component in DatabaseToolbar, add view state management to useDatabaseBlock hook, implement view persistence in database. This provides the foundation for switching between different view types.",
   testStrategy |-> "Test view switching functionality, verify state persistence, test view transitions"],
  [id |-> 2,
   title |-> "View-Specific Filtering UI",
   description |-> "Create ViewFilters component with grouping UI and date range picker",
   status |-> "pending",
   priority |-> "high",
   dependencies |-> <<1>>,
   details |-> "Create ViewFilters component for view-specific filter options, add grouping UI for kanban/calendar views, implement date range picker for calendar/timeline views.",
   testStrategy |-> "Test filter UI responsiveness, verify grouping functionality, test date range selection"],
  [id |-> 3,
   title |-> "Drag & Drop Infrastructure",
   description |-> "Install and setup @dnd-kit with reusable drag utilities",
   status |-> "pending",
   priority |-> "high",
   dependencies |-> <<>>,
   details |-> "Install @dnd-kit/core and @dnd-kit/sortable, create reusable DragContext and drag utilities, implement drag overlay and collision detection for smooth drag operations.",
   testStrategy |-> "Test drag and drop functionality, verify collision detection, test performance with many draggable items"],
  [id |-> 4,
   title |-> "Gallery View Implementation",
   description |-> "Create DatabaseGallery component with virtual grid and card display",
   status |-> "pending",
   priority |-> "medium",
   dependencies |-> <<1>>,
   details |-> "Create DatabaseGallery component with virtual grid using react-window, implement card-based display with cover images, add gallery-specific toolbar and settings.",
   testStrategy |-> "Test virtual scrolling with 50k+ cards, verify image loading performance, test responsive grid layout"],
  [id |-> 5,
   title |-> "Kanban View Implementation",
   description |-> "Create DatabaseKanban with drag-drop between columns",
   status |-> "pending",
   priority |-> "medium",
   dependencies |-> <<1, 3>>,
   details |-> "Create DatabaseKanban component with virtual columns, implement drag-and-drop between columns using @dnd-kit, add column management (add/edit/delete columns).",
   testStrategy |-> "Test drag-drop between columns, verify performance with many cards, test column management operations"],
  [id |-> 6,
   title |-> "Calendar View Implementation",
   description |-> "Create DatabaseCalendar with month/week/day views",
   status |-> "pending",
   priority |-> "medium",
   dependencies |-> <<1, 2>>,
   details |-> "Create DatabaseCalendar component with month/week/day views, implement date navigation and event display, add calendar-specific date filtering and event management.",
   testStrategy |-> "Test view switching (month/week/day), verify event rendering, test date navigation performance"],
  [id |-> 7,
   title |-> "Timeline View Implementation",
   description |-> "Create DatabaseTimeline with horizontal scrolling",
   status |-> "pending",
   priority |-> "medium",
   dependencies |-> <<1, 2>>,
   details |-> "Create DatabaseTimeline component with horizontal scrolling, implement timeline navigation and zoom controls, add timeline-specific date range filtering.",
   testStrategy |-> "Test horizontal scrolling performance, verify zoom functionality, test with large date ranges"],
  [id |-> 8,
   title |-> "View Performance Optimization",
   description |-> "Implement view-specific optimizations and transitions",
   status |-> "pending",
   priority |-> "high",
   dependencies |-> <<4, 5, 6, 7>>,
   details |-> "Implement view-specific virtual scrolling optimizations, add view transition animations and loading states, optimize data fetching for each view type to handle 50k+ records.",
   testStrategy |-> "Benchmark performance with 50k+ records, measure view transition times, profile memory usage"],
  [id |-> 9,
   title |-> "View Testing & Integration",
   description |-> "Create comprehensive test suite for all views",
   status |-> "pending",
   priority |-> "high",
   dependencies |-> <<8>>,
   details |-> "Create comprehensive test suite for all views, test 50k+ record performance across all views, integration testing with existing database features (formulas, filtering, sorting).",
   testStrategy |-> "Run performance benchmarks, verify data consistency across views, test mobile responsiveness"]
>>

----------------------------------------------------------------------------
(* Dict helpers *)

\* d[key] = value on a dict: adds the key or overwrites it
SetItem(d, key, value) ==
    [k \in (DOMAIN d) \cup {key} |-> IF k = key THEN value ELSE d[k]]

\* task.get('subtasks', [])
GetSubtasks(task) ==
    IF "subtasks" \in DOMAIN task THEN task.subtasks ELSE <<>>

----------------------------------------------------------------------------
(* The file as text: json.load and json.dump *)

Empty == [kind |-> "empty"]

\* a complete JSON text of document d in the given whitespace layout
Json(d, layout) == [kind |-> "json", doc |-> d, layout |-> layout]

\* the text on disk after json.dump emitted the first n task chunks of d
Partial(d, n) == [kind |-> "partial", emitted |-> SubSeq(d.tasks, 1, n)]

\* json.load succeeds only on a complete JSON text
Loadable(f) == f.kind = "json"

json_load(f) == f.doc

\* json.dump(data, f, indent=2), once every chunk is on disk
json_dump(d) == Json(d, "indent2")

----------------------------------------------------------------------------
(* The locator, lines 15-25 *)

\* variant: the inner loop has no break and keeps the last match
RECURSIVE ScanSubtasks_last(_, _)
ScanSubtasks_last(subs, j) ==
    IF j > Len(subs) THEN None
    ELSE LET later == ScanSubtasks_last(subs, j + 1)
         IN  IF later # None THEN later
             ELSE IF subs[j].id = TargetSubtaskId THEN j
             ELSE None

\* inner loop, lines 20-24: first position j >= from with id 13, else None
RECURSIVE ScanSubtasks(_, _)
ScanSubtasks(subs, j) ==
    IF j > Len(subs) THEN None
    ELSE IF subs[j].id = TargetSubtaskId THEN j
    ELSE ScanSubtasks(subs, j + 1)

\* variant: the outer break is taken only on a match, so the scan goes on to
\* later tasks with id 20
RECURSIVE ScanTasks_noBreak(_, _)
ScanTasks_noBreak(tasks, i) ==
    IF i > Len(tasks) THEN [sub |-> None, index |-> None]
    ELSE IF tasks[i].id = TargetTaskId /\ ScanSubtasks(GetSubtasks(tasks[i]), 1) # None
         THEN [sub |-> ScanSubtasks(GetSubtasks(tasks[i]), 1), index |-> i]
         ELSE ScanTasks_noBreak(tasks, i + 1)

\* outer loop, lines 18-25: stops at the first task with id 20, found or not
RECURSIVE ScanTasks(_, _)
ScanTasks(tasks, i) ==
    IF i > Len(tasks) THEN [sub |-> None, index |-> None]
    ELSE IF tasks[i].id = TargetTaskId
         THEN LET j == ScanSubtasks(GetSubtasks(tasks[i]), 1)
              IN  IF j # None THEN [sub |-> j, index |-> i]
                  ELSE [sub |-> None, index |-> None]
         ELSE ScanTasks(tasks, i + 1)

----------------------------------------------------------------------------
(* The summary, lines 135-139 *)

\* ', '.join(map(str, deps))
RECURSIVE JoinDeps(_)
JoinDeps(deps) ==
    IF Len(deps) = 0 THEN ""
    ELSE IF Len(deps) = 1 THEN ToString(deps[1])
    ELSE ToString(deps[1]) \o ", " \o JoinDeps(Tail(deps))

\* variant: the parenthetical is printed for every record
DepsSuffix_always(subtask) ==
    " (depends on: " \o JoinDeps(subtask.dependencies) \o ")"

\* line 138
DepsSuffix(subtask) ==
    IF Len(subtask.dependencies) # 0
    THEN " (depends on: " \o JoinDeps(subtask.dependencies) \o ")"
    ELSE ""

\* line 139
SummaryLine(subtask) ==
    "  20.13." \o ToString(subtask.id) \o " - " \o subtask.title \o DepsSuffix(subtask)

\* lines 135-136; the leading check-mark glyph of line 135 is not ASCII and is
\* left out, and the newline inside line 136 is the empty second line
SuccessHeader == <<"Successfully added 9 subtasks to Task 20.13", "", "Subtasks added:">>

NotFoundMessage == "Error: Task 20.13 not found"

----------------------------------------------------------------------------
(* Starting documents *)

Min(S) == CHOOSE m \in S : \A n \in S : m <= n

\* a subtask that is not the target; position 13 gets an id other than 13
Filler(k) ==
    [id |-> IF k = TargetSubtaskId THEN k + 100 ELSE k,
     title |-> "Subtask", status |-> "done"]

OldChild == [id |-> 1, title |-> "Old child", status |-> "done", dependencies |-> <<>>]

TargetBase == [id |-> TargetSubtaskId, title |-> "Database Block Advanced Views", status |-> "pending"]

ChildVariants == {"absent", "empty", "old"}

\* subtask 13 before the edit: without a 'subtasks' key, with none, with one child
Target(v) ==
    IF v = "absent" THEN TargetBase
    ELSE IF v = "empty" THEN SetItem(TargetBase, "subtasks", <<>>)
    ELSE SetItem(TargetBase, "subtasks", <<OldChild>>)

\* a later record that also carries id 13
Dup == [id |-> TargetSubtaskId, title |-> "Duplicate id", status |-> "done", subtasks |-> <<OldChild>>]

\* positions of a subtask list at which a starting document may carry id 13:
\* the head, and the positions around the hard-coded index
CandPos == {1, HardIndex, HardIndex + 1, HardIndex + 2}

SubLens == {0} \cup ((MaxSubLen - 2) .. MaxSubLen)

SubSeqFor(L, P, v) ==
    [k \in 1..L |-> IF k \in P
                    THEN (IF k = Min(P) THEN Target(v) ELSE Dup)
                    ELSE Filler(k)]

SubSeqs ==
    { SubSeqFor(L, P, v) :
        L \in SubLens,
        P \in { Q \in SUBSET CandPos : Cardinality(Q) <= 2 },
        v \in ChildVariants }

Task20(subs) == [id |-> TargetTaskId, title |-> "Database Block", subtasks |-> subs]

RichPool == { Task20(subs) : subs \in SubSeqs }

SmallPool ==
    { [id |-> 19, title |-> "Other"],
      [id |-> 19, title |-> "Other", subtasks |-> <<Target("old")>>],
      [id |-> TargetTaskId, title |-> "Database Block"],
      [id |-> TargetTaskId, title |-> "Database Block", subtasks |-> <<Filler(1)>>],
      Task20(SubSeqFor(HardIndex + 1, {HardIndex + 1}, "old")) }

RECURSIVE SeqsUpTo(_, _)
SeqsUpTo(S, n) ==
    IF n = 0 THEN {<<>>}
    ELSE LET shorter == SeqsUpTo(S, n - 1)
         IN  shorter \cup { Append(q, x) : q \in { r \in shorter : Len(r) = n - 1 }, x \in S }

\* task lists of at most MaxTasks tasks, at most one of them from RichPool
TaskLists ==
    LET small == SeqsUpTo(SmallPool, MaxTasks)
    IN  small \cup UNION { { [q EXCEPT ![i] = t] : i \in 1..Len(q), t \in RichPool } : q \in small }

Docs == { [tasks |-> q, metadata |-> "master"] : q \in TaskLists }

StartFiles == { Json(d, layout) : d \in Docs, layout \in {"compact", "indent2"} }

----------------------------------------------------------------------------
(* The run *)

Terminal == {"done", "error", "fault", "killed"}

Init ==
    /\ file \in StartFiles
    /\ fileAtStart = file
    /\ data = Unbound
    /\ task_20_13 = None
    /\ task_20_index = None
    /\ pc = "load"
    /\ out = <<>>
    /\ status = Running
    /\ written = 0
    /\ reads = 0
    /\ writes = 0
    /\ run = 1
    /\ prev = "none"
    /\ killedAt = ""

\* lines 11-12: open for reading and json.load; a text that is not complete
\* JSON raises JSONDecodeError, which nothing catches
Load ==
    /\ pc = "load"
    /\ reads' = reads + 1
    /\ IF Loadable(file)
       THEN /\ data' = json_load(file)
            /\ pc' = "find"
            /\ UNCHANGED <<out, status>>
       ELSE /\ pc' = "fault"
            /\ out' = Append(out, "Traceback: JSONDecodeError")
            /\ status' = 1
            /\ UNCHANGED data
    /\ UNCHANGED <<file, fileAtStart, task_20_13, task_20_index, written, writes, run, prev, killedAt>>

\* lines 15-25
Find ==
    /\ pc = "find"
    /\ LET r == ScanTasks(data.tasks, 1)
       IN  /\ task_20_13' = r.sub
           /\ task_20_index' = r.index
    /\ pc' = "check"
    /\ UNCHANGED <<file, fileAtStart, data, out, status, written, reads, writes, run, prev, killedAt>>

\* variant: the error is printed but the run goes on to the save
Check_noExit ==
    /\ pc = "check"
    /\ IF task_20_13 = None
       THEN /\ out' = Append(out, NotFoundMessage)
            /\ pc' = "open"
            /\ UNCHANGED status
       ELSE /\ pc' = "replace"
            /\ UNCHANGED <<out, status>>
    /\ UNCHANGED <<file, fileAtStart, data, task_20_13, task_20_index, written, reads, writes, run, prev, killedAt>>

\* lines 27-29
Check ==
    /\ pc = "check"
    /\ IF task_20_13 = None
       THEN /\ out' = Append(out, NotFoundMessage)
            /\ status' = 1
            /\ pc' = "error"
       ELSE /\ pc' = "replace"
            /\ UNCHANGED <<out, status>>
    /\ UNCHANGED <<file, fileAtStart, data, task_20_13, task_20_index, written, reads, writes, run, prev, killedAt>>

\* variant: the new records are appended to the old children
NewChildren_append(old) == old \o new_subtasks

\* variant: children that exist are kept, the new records only fill a gap
NewChildren_keepOld(old) == IF old # <<>> THEN old ELSE new_subtasks

\* the value stored by task_20_13['subtasks'] = ... at line 126
NewChildren(old) == new_subtasks

\* line 126: task_20_13 refers to the record inside data, so the assignment
\* changes data in place
Replace ==
    /\ pc = "replace"
    /\ data' = [data EXCEPT !.tasks[task_20_index].subtasks[task_20_13] =
                    SetItem(@, "subtasks", NewChildren(GetSubtasks(@)))]
    /\ pc' = "update"
    /\ UNCHANGED <<file, fileAtStart, task_20_13, task_20_index, out, status, written, reads, writes, run, prev, killedAt>>

\* variant: the record is written back where it was found
WriteBackPos_located(located) == located

\* the position written by line 129
WriteBackPos(located) == HardIndex + 1

\* variant: a list that is too short is extended instead of raising
Update_extend ==
    /\ pc = "update"
    /\ LET subs == data.tasks[task_20_index].subtasks
           pos  == WriteBackPos(task_20_13)
       IN  IF pos <= Len(subs)
           THEN data' = [data EXCEPT !.tasks[task_20_index].subtasks[pos] = subs[task_20_13]]
           ELSE data' = [data EXCEPT !.tasks[task_20_index].subtasks = Append(subs, subs[task_20_13])]
    /\ pc' = "open"
    /\ UNCHANGED <<file, fileAtStart, task_20_13, task_20_index, out, status, written, reads, writes, run, prev, killedAt>>

\* line 129: list item assignment; IndexError when the list has no index 12
Update ==
    /\ pc = "update"
    /\ LET subs == data.tasks[task_20_index].subtasks
           pos  == WriteBackPos(task_20_13)
       IN  IF pos <= Len(subs)
           THEN /\ data' = [data EXCEPT !.tasks[task_20_index].subtasks[pos] = subs[task_20_13]]
                /\ pc' = "open"
                /\ UNCHANGED <<out, status>>
           ELSE /\ pc' = "fault"
                /\ out' = Append(out, "Traceback: IndexError")
                /\ status' = 1
                /\ UNCHANGED data
    /\ UNCHANGED <<file, fileAtStart, task_20_13, task_20_index, written, reads, writes, run, prev, killedAt>>

\* variant: the old content stays in place until the new text is complete
Opened_keep(f) == f

\* the content of the file right after open(tasks_file, 'w')
Opened(f) == Empty

\* line 132: opening with mode 'w' truncates the file
OpenWrite ==
    /\ pc = "open"
    /\ file' = Opened(file)
    /\ writes' = writes + 1
    /\ written' = 0
    /\ pc' = "dump"
    /\ UNCHANGED <<fileAtStart, data, task_20_13, task_20_index, out, status, reads, run, prev, killedAt>>

\* line 133: json.dump emits the text chunk by chunk
DumpChunk ==
    /\ pc = "dump"
    /\ written < Len(data.tasks)
    /\ written' = written + 1
    /\ file' = Partial(data, written + 1)
    /\ UNCHANGED <<fileAtStart, data, task_20_13, task_20_index, pc, out, status, reads, writes, run, prev, killedAt>>

\* line 133 and the end of the with block: last chunk written, file closed
DumpEnd ==
    /\ pc = "dump"
    /\ written = Len(data.tasks)
    /\ file' = json_dump(data)
    /\ pc' = "print"
    /\ UNCHANGED <<fileAtStart, data, task_20_13, task_20_index, out, status, written, reads, writes, run, prev, killedAt>>

\* lines 135-139
PrintSummary ==
    /\ pc = "print"
    /\ out' = out \o SuccessHeader \o [k \in 1..Len(new_subtasks) |-> SummaryLine(new_subtasks[k])]
    /\ status' = 0
    /\ pc' = "done"
    /\ UNCHANGED <<file, fileAtStart, data, task_20_13, task_20_index, written, reads, writes, run, prev, killedAt>>

\* the process is killed between two statements (power loss, SIGKILL)
Crash ==
    /\ pc \notin Terminal
    /\ pc' = "killed"
    /\ status' = 137
    /\ killedAt' = pc
    /\ UNCHANGED <<file, fileAtStart, data, task_20_13, task_20_index, out, written, reads, writes, run, prev>>

\* the script is started again on the file the previous run left
Rerun ==
    /\ pc \in Terminal
    /\ run < MaxRuns
    /\ run' = run + 1
    /\ fileAtStart' = file
    /\ data' = Unbound
    /\ task_20_13' = None
    /\ task_20_index' = None
    /\ pc' = "load"
    /\ out' = <<>>
    /\ status' = Running
    /\ written' = 0
    /\ reads' = 0
    /\ writes' = 0
    /\ prev' = pc
    /\ killedAt' = ""
    /\ UNCHANGED file

Next ==
    \/ Load
    \/ Find
    \/ Check
    \/ Replace
    \/ Update
    \/ OpenWrite
    \/ DumpChunk
    \/ DumpEnd
    \/ PrintSummary
    \/ Crash
    \/ Rerun

Spec == Init /\ [][Next]_vars

----------------------------------------------------------------------------
(* Vocabulary of the properties.  These describe the starting document     *)
(* and the outcome directly, without the scanning operators of the model.  *)

Finished == {"done", "error", "fault"}

StartOK == Loadable(fileAtStart)

Start == fileAtStart.doc

HasSub13(t) ==
    /\ "subtasks" \in DOMAIN t
    /\ \E j \in 1..Len(t.subtasks) : t.subtasks[j].id = TargetSubtaskId

Tasks20(d) == { i \in 1..Len(d.tasks) : d.tasks[i].id = TargetTaskId }

\* the first task with id 20 exists and has a subtask with id 13
FirstHas13(d) == Tasks20(d) # {} /\ HasSub13(d.tasks[Min(Tasks20(d))])

First20(d) == Min(Tasks20(d))

First13(t) == Min({ j \in 1..Len(t.subtasks) : t.subtasks[j].id = TargetSubtaskId })

Slot == HardIndex + 1

\* task t has a subtask with id 13 at index 12
Has13AtSlot(t) ==
    /\ "subtasks" \in DOMAIN t
    /\ Len(t.subtasks) >= Slot
    /\ t.subtasks[Slot].id = TargetSubtaskId

\* on disk, the record at index 12 of task i carries exactly the nine records
SlotHasNine(i) ==
    /\ file.kind = "json"
    /\ i <= Len(file.doc.tasks)
    /\ Has13AtSlot(file.doc.tasks[i])
    /\ "subtasks" \in DOMAIN file.doc.tasks[i].subtasks[Slot]
    /\ file.doc.tasks[i].subtasks[Slot].subtasks = new_subtasks

NineLiteral ==
    /\ Len(new_subtasks) = 9
    /\ \A k \in 1..9 : new_subtasks[k].id = k
    /\ new_subtasks[5].title = "Kanban View Implementation"
    /\ new_subtasks[5].dependencies = <<1, 3>>

----------------------------------------------------------------------------
\* C1 (as stated): whenever the starting document contains some task with id
\* 20 whose subtask at index 12 has id 13, a finished run leaves that
\* element's 'subtasks' equal to the nine literal records.
C1_AsStated ==
    (StartOK /\ pc \in Finished) =>
        \A i \in Tasks20(Start) : Has13AtSlot(Start.tasks[i]) => SlotHasNine(i)

\* C1 (amended): whenever the FIRST task with id 20 of the starting document
\* has at index 12 a subtask with id 13, a finished run ends in success and
\* the record at index 12 of that task carries exactly the nine literal
\* records (ids 1..9 in order, id 5 titled "Kanban View Implementation" with
\* dependencies [1,3]), whatever children it had before.
C1_FirstTaskReplaced ==
    (StartOK /\ pc \in Finished /\ Tasks20(Start) # {}
        /\ Has13AtSlot(Start.tasks[First20(Start)])) =>
            /\ pc = "done"
            /\ SlotHasNine(First20(Start))
            /\ NineLiteral

\* a successful run whose target had one old child before
C1_Witness ==
    /\ pc = "done"
    /\ StartOK
    /\ Tasks20(Start) # {}
    /\ Has13AtSlot(Start.tasks[First20(Start)])
    /\ "subtasks" \in DOMAIN Start.tasks[First20(Start)].subtasks[Slot]
    /\ Start.tasks[First20(Start)].subtasks[Slot].subtasks = <<OldChild>>
    /\ SlotHasNine(First20(Start))

----------------------------------------------------------------------------
\* C2: when the starting document has no task with id 20, or the task with
\* id 20 that the scan reaches has no subtask with id 13 (the 'subtasks' key
\* may be missing altogether), the run never reaches the mutation or the
\* write: file and loaded document stay as they were, and the run can only
\* end by printing the error and exiting with status 1, without a summary.
C2_NotFoundLeavesFile ==
    (StartOK /\ ~FirstHas13(Start)) =>
        /\ pc \notin {"replace", "update", "open", "dump", "print", "done", "fault"}
        /\ writes = 0
        /\ file = fileAtStart
        /\ data \in {Unbound, Start}
        /\ pc = "error" => (out = <<NotFoundMessage>> /\ status = 1)
        /\ pc # "error" => out = <<>>

\* the error exit on a task 20 that has no 'subtasks' key
C2_Witness ==
    /\ pc = "error"
    /\ StartOK
    /\ Tasks20(Start) # {}
    /\ "subtasks" \notin DOMAIN Start.tasks[First20(Start)]
    /\ out = <<NotFoundMessage>>

----------------------------------------------------------------------------
\* C5 (as stated): the locator yields None exactly when no task with id 20
\* has a subtask with id 13.
C5_AsStated ==
    (pc = "check") =>
        ((task_20_13 = None) <=>
            ~(\E i \in Tasks20(data) : HasSub13(data.tasks[i])))

\* C5 (amended): the locator yields None exactly when the document has no
\* task with id 20 or its first task with id 20 has no subtask with id 13;
\* otherwise it yields the first subtask with id 13 of the first task with
\* id 20, together with the position of that task.
C5_FirstTaskOnly ==
    (pc = "check") =>
        /\ (task_20_13 = None) <=> ~FirstHas13(data)
        /\ (task_20_13 = None) <=> (task_20_index = None)
        /\ task_20_13 # None =>
            /\ task_20_index = First20(data)
            /\ task_20_13 = First13(data.tasks[task_20_index])
            /\ data.tasks[task_20_index].id = TargetTaskId
            /\ data.tasks[task_20_index].subtasks[task_20_13].id = TargetSubtaskId

\* the locator reports None although a later task with id 20 has subtask 13
C5_Witness ==
    /\ pc = "check"
    /\ task_20_13 = None
    /\ \E i \in Tasks20(data) : HasSub13(data.tasks[i])

----------------------------------------------------------------------------
\* C3: idempotence.  A run started on the file that a previous complete run
\* left behind ends with the file exactly as it found it, so running twice
\* leaves what running once leaves.  This covers failed runs and documents
\* whose subtask 13 is not at index 12.
C3_Idempotent ==
    (run > 1 /\ prev \in Finished /\ pc \in Finished) => file = fileAtStart

\* a second successful run that locates id 13 away from index 12
C3_Witness ==
    /\ run > 1
    /\ prev = "done"
    /\ pc = "done"
    /\ task_20_13 # Slot
    /\ file = fileAtStart

----------------------------------------------------------------------------
\* the keys of record r other than 'subtasks', with their values
Without(r, key) == [k \in (DOMAIN r) \ {key} |-> r[k]]

\* C4 (as stated): after a finished run the document on disk differs from
\* the starting document at most in the 'subtasks' field of the subtasks
\* with id 13 of tasks with id 20: every other task, every other subtask and
\* every other field is as it was.
C4_Frame ==
    (StartOK /\ pc \in Finished) =>
        /\ file.kind = "json"
        /\ Without(file.doc, "tasks") = Without(Start, "tasks")
        /\ Len(file.doc.tasks) = Len(Start.tasks)
        /\ \A i \in 1..Len(Start.tasks) :
            LET old == Start.tasks[i]
                new == file.doc.tasks[i]
            IN  /\ Without(new, "subtasks") = Without(old, "subtasks")
                /\ ("subtasks" \in DOMAIN new) <=> ("subtasks" \in DOMAIN old)
                /\ old.id # TargetTaskId => new = old
                /\ "subtasks" \in DOMAIN old =>
                    /\ Len(new.subtasks) = Len(old.subtasks)
                    /\ \A j \in 1..Len(old.subtasks) :
                        /\ old.subtasks[j].id # TargetSubtaskId => new.subtasks[j] = old.subtasks[j]
                        /\ Without(new.subtasks[j], "subtasks") = Without(old.subtasks[j], "subtasks")

----------------------------------------------------------------------------
ExpectedSummary == <<
    "Successfully added 9 subtasks to Task 20.13",
    "",
    "Subtasks added:",
    "  20.13.1 - View Switching Infrastructure",
    "  20.13.2 - View-Specific Filtering UI (depends on: 1)",
    "  20.13.3 - Drag & Drop Infrastructure",
    "  20.13.4 - Gallery View Implementation (depends on: 1)",
    "  20.13.5 - Kanban View Implementation (depends on: 1, 3)",
    "  20.13.6 - Calendar View Implementation (depends on: 1, 2)",
    "  20.13.7 - Timeline View Implementation (depends on: 1, 2)",
    "  20.13.8 - View Performance Optimization (depends on: 4, 5, 6, 7)",
    "  20.13.9 - View Testing & Integration (depends on: 8)" >>

\* C6: a successful run prints, after the success header, exactly nine lines
\* '20.13.<id> - <title>' in id order 1..9, with ' (depends on: ...)' exactly
\* on the records that have dependencies; nothing of the summary is printed
\* before the file holds the written document, nor on the not-found path.
C6_Summary ==
    /\ pc = "done" => out = ExpectedSummary
    /\ pc # "done" => \A k \in 1..Len(out) : \A n \in 1..Len(ExpectedSummary) : out[k] # ExpectedSummary[n]
    /\ out # <<>> /\ out[1] = ExpectedSummary[1] =>
        /\ out = ExpectedSummary
        /\ writes = 1
        /\ file = Json(data, "indent2")
    /\ pc = "error" => out = <<NotFoundMessage>>

C6_Witness ==
    /\ pc = "done"
    /\ Len(out) = 12
    /\ out[8] = "  20.13.5 - Kanban View Implementation (depends on: 1, 3)"
    /\ out[4] = "  20.13.1 - View Switching Infrastructure"

----------------------------------------------------------------------------
\* C7: persistence is not atomic.  From the moment the file is opened for
\* writing until the last chunk is out, the file on disk is an empty or a
\* partial text: neither the starting document nor the updated one.  A run
\* killed in that window leaves the file that way, and a later run that
\* reads such a file fails in json.load: it locates nothing, edits nothing
\* and leaves the file as it is.
C7_NotAtomic ==
    /\ pc = "dump" =>
        /\ ~Loadable(file)
        /\ file # fileAtStart
        /\ file # json_dump(data)
        /\ written = 0 => file = Empty
    /\ (pc = "killed" /\ killedAt = "dump") => (~Loadable(file) /\ file # fileAtStart)
    /\ (~StartOK /\ pc # "load") =>
        /\ pc \in {"fault", "killed"}
        /\ prev \in {"fault", "killed"}
        /\ data = Unbound
        /\ task_20_13 = None
        /\ writes = 0
        /\ file = fileAtStart
        /\ pc = "fault" => (status = 1 /\ out = <<"Traceback: JSONDecodeError">>)

\* a second run that failed to load the file a killed run left truncated
C7_Witness ==
    /\ run = 2
    /\ prev = "killed"
    /\ pc = "fault"
    /\ fileAtStart.kind \in {"empty", "partial"}
    /\ file = fileAtStart

----------------------------------------------------------------------------
\* the record the run stores: the located subtask with the nine children
Updated(t, p) == SetItem(t.subtasks[p], "subtasks", new_subtasks)

\* C8: when the first task with id 20 has at least 13 subtasks and its first
\* subtask with id 13 is at a position p other than index 12, a finished run
\* reports success and writes a document in which (i) the record at p
\* carries the nine children, (ii) index 12 holds that same record, so id 13
\* is at both places and a record with another id that was at index 12 is
\* gone, (iii) the list is as long as before and is unchanged elsewhere.
C8_MisplacedOverwrites ==
    (StartOK /\ pc \in Finished /\ FirstHas13(Start)
        /\ Len(Start.tasks[First20(Start)].subtasks) >= Slot
        /\ First13(Start.tasks[First20(Start)]) # Slot) =>
            LET i   == First20(Start)
                old == Start.tasks[i]
                p   == First13(old)
            IN  /\ pc = "done"
                /\ status = 0
                /\ out[1] = SuccessHeader[1]
                /\ file.kind = "json"
                /\ LET new == file.doc.tasks[i]
                   IN  /\ new.subtasks[p] = Updated(old, p)
                       /\ new.subtasks[p].subtasks = new_subtasks
                       /\ new.subtasks[Slot] = new.subtasks[p]
                       /\ new.subtasks[Slot].id = TargetSubtaskId
                       /\ old.subtasks[Slot].id # TargetSubtaskId =>
                            \A j \in 1..Len(new.subtasks) : new.subtasks[j] # old.subtasks[Slot]
                       /\ Len(new.subtasks) = Len(old.subtasks)
                       /\ \A j \in 1..Len(old.subtasks) :
                            j \notin {p, Slot} => new.subtasks[j] = old.subtasks[j]

\* success on a list whose only id 13 sat after index 12
C8_Witness ==
    /\ pc = "done"
    /\ StartOK
    /\ FirstHas13(Start)
    /\ First13(Start.tasks[First20(Start)]) > Slot
    /\ file.doc.tasks[First20(Start)].subtasks[Slot].id = TargetSubtaskId
    /\ Start.tasks[First20(Start)].subtasks[Slot].id # TargetSubtaskId

----------------------------------------------------------------------------
\* C9: when the first task with id 20 has a subtask with id 13 but fewer
\* than 13 subtasks, the run passes the existence check and can only end in
\* an uncaught IndexError at the write to index 12; the file is never opened
\* for writing and stays unchanged, and neither the not-found error nor the
\* summary is printed.
C9_ShortListFaults ==
    (StartOK /\ FirstHas13(Start)
        /\ Len(Start.tasks[First20(Start)].subtasks) < Slot) =>
            /\ pc \notin {"error", "open", "dump", "print", "done"}
            /\ writes = 0
            /\ file = fileAtStart
            /\ pc \in Finished =>
                /\ pc = "fault"
                /\ task_20_13 # None
                /\ status # 0
                /\ out = <<"Traceback: IndexError">>

C9_Witness ==
    /\ pc = "fault"
    /\ StartOK
    /\ FirstHas13(Start)
    /\ Len(Start.tasks[First20(Start)].subtasks) < Slot
    /\ file = fileAtStart
    /\ data # Start

----------------------------------------------------------------------------
\* C10: a run opens the file for reading exactly once, before anything
\* else, and for writing at most once; the file is written only after the
\* locator found subtask 20.13 and the replacement was applied in memory,
\* and it is untouched up to that point.
C10_ReadOnceWriteOnce ==
    /\ reads <= 1
    /\ writes <= 1
    /\ (pc # "load" /\ killedAt # "load") => reads = 1
    /\ pc = "load" => (reads = 0 /\ writes = 0)
    /\ writes = 1 =>
        /\ reads = 1
        /\ task_20_13 # None
        /\ task_20_index # None
        /\ data.tasks[task_20_index].subtasks[task_20_13].subtasks = new_subtasks
        /\ data.tasks[task_20_index].subtasks[Slot] = data.tasks[task_20_index].subtasks[task_20_13]
    /\ writes = 0 => file = fileAtStart
    /\ pc \in {"load", "find", "check", "replace", "update", "open", "error", "fault"} => writes = 0

C10_Witness ==
    /\ pc = "done"
    /\ reads = 1
    /\ writes = 1
    /\ file # fileAtStart

====
